---------------------------- MODULE Spec2Model ----------------------------
(***************************************************************************)
(* A model of the Odoo subscription reporter: the JSON-RPC client          *)
(* (_make_request), the field normalizers, the report assembler            *)
(* (generate_structured_reports), the Flask routes that call it and the    *)
(* spreadsheet renderer (create_excel_report_base64).                      *)
(*                                                                         *)
(* Python values are records [t, s, n, l, x]: t is the type tag, s the     *)
(* characters of a str (a sequence of one-character strings, so that       *)
(* capitalize, split and strptime are computed character by character),    *)
(* n the number of an int (or the id of an [id, label] pair), l the        *)
(* elements of a list of ints, x the class of a raised exception.  An      *)
(* operator that models a Python function returns PyRaise(class) where the *)
(* function raises.                                                        *)
(***************************************************************************)
EXTENDS Integers, Sequences, FiniteSets, TLC

(***************************************************************************)
(* Python values                                                           *)
(***************************************************************************)
PyVal(t, s, n, l, x) == [t |-> t, s |-> s, n |-> n, l |-> l, x |-> x]

PyNone     == PyVal("none", <<>>, 0, <<>>, "")
PyFalse    == PyVal("bool", <<>>, 0, <<>>, "")
PyTrue     == PyVal("bool", <<>>, 1, <<>>, "")
PyStr(s)   == PyVal("str", s, 0, <<>>, "")
PyInt(n)   == PyVal("int", <<>>, n, <<>>, "")
\* the two-element list [id, label] of a many2one field
PyRel(id, label) == PyVal("rel", label, id, <<>>, "")
\* a list of ints (one2many ids); [] is PyIds(<<>>)
PyIds(l)   == PyVal("ids", <<>>, 0, l, "")
PyRaise(x) == PyVal("raise", <<>>, 0, <<>>, x)

IsRaise(v) == v.t = "raise"
IsStr(v)   == v.t = "str"

\* Python truth value of v
Truthy(v) ==
    CASE v.t = "none" -> FALSE
      [] v.t = "bool" -> v.n = 1
      [] v.t = "str"  -> v.s # <<>>
      [] v.t = "int"  -> v.n # 0
      [] v.t = "rel"  -> TRUE
      [] v.t = "ids"  -> v.l # <<>>
      [] OTHER        -> FALSE

\* dict.get(key, default) on a record modelled as a function on its keys
Get(d, k, default) == IF k \in DOMAIN d THEN d[k] ELSE default

EmptyDict == [k \in {} |-> PyNone]

(***************************************************************************)
(* Strings                                                                 *)
(***************************************************************************)
Lowers == <<"a","b","c","d","e","f","g","h","i","j","k","l","m",
            "n","o","p","q","r","s","t","u","v","w","x","y","z">>
Uppers == <<"A","B","C","D","E","F","G","H","I","J","K","L","M",
            "N","O","P","Q","R","S","T","U","V","W","X","Y","Z">>
Digits == <<"0","1","2","3","4","5","6","7","8","9">>

IndexIn(seq, c) == IF \E i \in DOMAIN seq : seq[i] = c
                   THEN CHOOSE i \in DOMAIN seq : seq[i] = c
                   ELSE 0

UpperChar(c) == IF IndexIn(Lowers, c) > 0 THEN Uppers[IndexIn(Lowers, c)] ELSE c
LowerChar(c) == IF IndexIn(Uppers, c) > 0 THEN Lowers[IndexIn(Uppers, c)] ELSE c

\* str.capitalize(): first character upper-cased, the rest lower-cased
Capitalize(s) ==
    [i \in 1..Len(s) |-> IF i = 1 THEN UpperChar(s[i]) ELSE LowerChar(s[i])]

IsDigit(c)  == IndexIn(Digits, c) > 0
DigitVal(c) == IndexIn(Digits, c) - 1
AllDigits(s) == \A i \in DOMAIN s : IsDigit(s[i])

RECURSIVE NumVal(_)
NumVal(s) == IF s = <<>> THEN 0
             ELSE 10 * NumVal(SubSeq(s, 1, Len(s) - 1)) + DigitVal(s[Len(s)])

RECURSIVE IntToStr(_)
IntToStr(n) == IF n < 10 THEN <<Digits[n + 1]>>
               ELSE IntToStr(n \div 10) \o <<Digits[(n % 10) + 1]>>

Pad2(n) == IF n < 10 THEN <<"0">> \o IntToStr(n) ELSE IntToStr(n)

\* str.split(sep) for a one-character separator
RECURSIVE SplitOn(_, _)
SplitOn(s, sep) ==
    IF \E i \in DOMAIN s : s[i] = sep
    THEN LET i == CHOOSE j \in DOMAIN s :
                     s[j] = sep /\ \A k \in 1..(j - 1) : s[k] # sep
         IN  <<SubSeq(s, 1, i - 1)>> \o SplitOn(SubSeq(s, i + 1, Len(s)), sep)
    ELSE <<s>>

\* the characters of the model's strings that the regex class \s takes: the
\* blank, tab, newline, vertical tab, form feed, carriage return and the
\* separators 0x1c..0x1f (the class also takes whitespace beyond ASCII, which
\* the strings of the model do not hold)
Whitespace == {" ", "\t", "\n", "", "\f", "\r", "", "", "", ""}
IsSpace(c) == c \in Whitespace

\* the text left after the run of whitespace that \s+ takes
RECURSIVE StripLeft(_)
StripLeft(s) == IF s # <<>> /\ IsSpace(s[1]) THEN StripLeft(Tail(s)) ELSE s

\* sep.join(parts)
RECURSIVE Join(_, _)
Join(parts, sep) ==
    IF parts = <<>> THEN <<>>
    ELSE IF Len(parts) = 1 THEN parts[1]
    ELSE parts[1] \o sep \o Join(Tail(parts), sep)

\* the display literals of the program
NA           == <<"N","/","A">>
NotAvailable == <<"N","o","t"," ","A","v","a","i","l","a","b","l","e">>
InvalidDate  == <<"I","n","v","a","l","i","d"," ","D","a","t","e">>
PlaceholderState == <<"n","/","a">>


(***************************************************************************)
(* Field normalizers (src/odoo_reporter_local.py, lines 108-167)           *)
(***************************************************************************)
\* get_many2one_value: the label of an [id, label] list, else the default
get_many2one_value(field_value, default) ==
    IF field_value.t = "rel" THEN PyStr(field_value.s)
    ELSE IF field_value.t = "ids" /\ Len(field_value.l) > 1
         THEN PyInt(field_value.l[2])
    ELSE default

\* get_partner_id: the first element of a non-empty list, else 0
get_partner_id(partner_field) ==
    IF partner_field.t = "rel" THEN PyInt(partner_field.n)
    ELSE IF partner_field.t = "ids" /\ partner_field.l # <<>>
         THEN PyInt(partner_field.l[1])
    ELSE PyInt(0)

IsLeap(y) == (y % 4 = 0 /\ y % 100 # 0) \/ y % 400 = 0
DaysInMonth(y, m) ==
    IF m = 2 THEN (IF IsLeap(y) THEN 29 ELSE 28)
    ELSE IF m \in {4, 6, 9, 11} THEN 30 ELSE 31

\* one numeric directive of strptime: a run of 1..2 digits with value lo..hi
\* (a one-digit run of %m and %d is 1..9, of %H, %M, %S is 0..9)
NumTok(s, lo, hi) == /\ Len(s) \in {1, 2}
                     /\ AllDigits(s)
                     /\ NumVal(s) \in lo..hi

\* '%Y-%m-%d' matched against the whole of s
DateOk(s) ==
    LET p == SplitOn(s, "-") IN
    /\ Len(p) = 3
    /\ Len(p[1]) = 4 /\ AllDigits(p[1]) /\ NumVal(p[1]) >= 1
    /\ NumTok(p[2], 1, 12)
    /\ NumTok(p[3], 1, 31)
    /\ NumVal(p[3]) <= DaysInMonth(NumVal(p[1]), NumVal(p[2]))

\* '%H:%M:%S' matched against the whole of s (datetime takes seconds 0..59)
TimeOk(s) ==
    LET p == SplitOn(s, ":") IN
    /\ Len(p) = 3
    /\ NumTok(p[1], 0, 23)
    /\ NumTok(p[2], 0, 59)
    /\ NumTok(p[3], 0, 59)

\* the index of the first blank of s (0 when there is none)
FirstBlank(s) == IF \E i \in DOMAIN s : s[i] = " "
                 THEN CHOOSE i \in DOMAIN s :
                          s[i] = " " /\ \A k \in 1..(i - 1) : s[k] # " "
                 ELSE 0

\* the index of the first whitespace character of s (0 when there is none)
FirstSpace(s) == IF \E i \in DOMAIN s : IsSpace(s[i])
                 THEN CHOOSE i \in DOMAIN s :
                          IsSpace(s[i]) /\ \A k \in 1..(i - 1) : ~IsSpace(s[k])
                 ELSE 0

\* where the date part of a '%Y-%m-%d %H:%M:%S' string ends: the digits of
\* %Y, %m and %d hold no whitespace, so the date ends before the first
\* whitespace character, except that %d also takes a blank (the blank only)
\* followed by one digit 1..9
DateEnd(s) ==
    LET b == FirstSpace(s) IN
    IF b > 1 /\ s[b] = " " /\ b + 1 <= Len(s) /\ s[b - 1] = "-"
       /\ IsDigit(s[b + 1]) /\ DigitVal(s[b + 1]) >= 1
    THEN b + 1
    ELSE b - 1

DatePart(s) ==
    LET b == FirstSpace(s)
        e == DateEnd(s)
    IN  IF e = b + 1
        THEN SubSeq(s, 1, b - 1) \o <<s[e]>>
        ELSE SubSeq(s, 1, e)

\* '%Y-%m-%d %H:%M:%S': the date, one or more whitespace characters (the
\* blank of the format is the regex \s+), the time
DateTimeOk(s) ==
    LET e    == DateEnd(s)
        rest == SubSeq(s, e + 1, Len(s))
    IN  /\ e >= 1
        /\ DateOk(DatePart(s))
        /\ rest # <<>> /\ IsSpace(rest[1])
        /\ TimeOk(StripLeft(rest))

\* strftime('%m/%d/%Y'); the C library does not pad a year below 1000
StrfDate(d) ==
    LET p == SplitOn(d, "-") IN
    Pad2(NumVal(p[2])) \o <<"/">> \o Pad2(NumVal(p[3])) \o <<"/">>
        \o IntToStr(NumVal(p[1]))

\* format_date: "Not Available" for a falsy value, "MM/DD/YYYY" for a date
\* or datetime string, "Invalid Date" when strptime raises ValueError or
\* TypeError (any truthy value that is not a str); the datetime format is
\* chosen when the string holds a blank (' ' in date_str), not any whitespace
format_date(date_str) ==
    IF ~Truthy(date_str) THEN PyStr(NotAvailable)
    ELSE IF ~IsStr(date_str) THEN PyStr(InvalidDate)
    ELSE IF FirstBlank(date_str.s) > 0
         THEN (IF DateTimeOk(date_str.s)
               THEN PyStr(StrfDate(DatePart(date_str.s)))
               ELSE PyStr(InvalidDate))
    ELSE IF DateOk(date_str.s) THEN PyStr(StrfDate(date_str.s))
    ELSE PyStr(InvalidDate)

\* repr of a value inside an f-string
FStr(v) == CASE v.t = "str"  -> v.s
             [] v.t = "int"  -> IntToStr(v.n)
             [] v.t = "bool" -> (IF v.n = 1 THEN <<"T","r","u","e">>
                                 ELSE <<"F","a","l","s","e">>)
             [] OTHER        -> <<"N","o","n","e">>

\* value[1], as customer.get('state_id', [False, ''])[1] evaluates it
Index1(v) ==
    CASE v.t = "rel" -> PyStr(v.s)
      [] v.t = "ids" -> (IF Len(v.l) > 1 THEN PyInt(v.l[2])
                         ELSE PyRaise("IndexError"))
      [] v.t = "str" -> (IF Len(v.s) > 1 THEN PyStr(<<v.s[2]>>)
                         ELSE PyRaise("IndexError"))
      [] OTHER       -> PyRaise("TypeError")

\* the default [False, ''] of state_id and country_id
RelDefault == PyRel(0, <<>>)

RECURSIVE FilterTruthy(_)
FilterTruthy(parts) ==
    IF parts = <<>> THEN <<>>
    ELSE IF Truthy(parts[1]) THEN <<parts[1]>> \o FilterTruthy(Tail(parts))
    ELSE FilterTruthy(Tail(parts))

\* format_address: street, street2, city, "<state> (<country>)" joined by
\* ", ", falsy parts dropped
format_address(customer) ==
    LET state   == Index1(Get(customer, "state_id", RelDefault))
        country == Index1(Get(customer, "country_id", RelDefault))
    IN  IF IsRaise(state) THEN state
        ELSE IF IsRaise(country) THEN country
        ELSE LET seg   == IF Truthy(state) /\ Truthy(country)
                          THEN PyStr(FStr(state) \o <<" ", "(">>
                                     \o FStr(country) \o <<")">>)
                          ELSE PyStr(<<>>)
                 parts == FilterTruthy(<<Get(customer, "street", PyStr(<<>>)),
                                        Get(customer, "street2", PyStr(<<>>)),
                                        Get(customer, "city", PyStr(<<>>)),
                                        seg>>)
             IN  IF \E i \in DOMAIN parts : ~IsStr(parts[i])
                 THEN PyRaise("TypeError")
                 ELSE PyStr(Join([i \in DOMAIN parts |-> parts[i].s],
                                 <<",", " ">>))

S_4_close   == <<"4","_","c","l","o","s","e">>
S_6_churn   == <<"6","_","c","h","u","r","n">>
S_3_pending == <<"3","_","p","e","n","d","i","n","g">>
S_2_open    == <<"2","_","o","p","e","n">>
S_1_draft   == <<"1","_","d","r","a","f","t">>

\* map_status: the default status.capitalize() is evaluated before the
\* lookup, so a status that is not a str raises AttributeError
map_status(status) ==
    IF ~IsStr(status) THEN PyRaise("AttributeError")
    ELSE CASE status.s = S_4_close   -> PyStr(<<"C","l","o","s","e","d">>)
           [] status.s = S_6_churn   -> PyStr(<<"C","h","u","r","n","e","d">>)
           [] status.s = S_3_pending -> PyStr(<<"P","e","n","d","i","n","g">>)
           [] status.s = S_2_open    -> PyStr(<<"A","c","t","i","v","e">>)
           [] status.s = S_1_draft   -> PyStr(<<"D","r","a","f","t">>)
           [] OTHER                  -> PyStr(Capitalize(status.s))

D_draft     == <<"d","r","a","f","t">>
D_waiting   == <<"w","a","i","t","i","n","g">>
D_confirmed == <<"c","o","n","f","i","r","m","e","d">>
D_assigned  == <<"a","s","s","i","g","n","e","d">>
D_done      == <<"d","o","n","e">>
D_cancel    == <<"c","a","n","c","e","l">>

map_delivery_status(status) ==
    IF ~IsStr(status) THEN PyRaise("AttributeError")
    ELSE CASE status.s = D_draft     -> PyStr(<<"D","r","a","f","t">>)
           [] status.s = D_waiting   -> PyStr(<<"W","a","i","t","i","n","g">>)
           [] status.s = D_confirmed -> PyStr(<<"C","o","n","f","i","r","m","e","d">>)
           [] status.s = D_assigned  -> PyStr(<<"P","r","e","p","a","r","a","t","i","o","n">>)
           [] status.s = D_done      -> PyStr(<<"D","e","l","i","v","e","r","e","d">>)
           [] status.s = D_cancel    -> PyStr(<<"C","a","n","c","e","l","l","e","d">>)
           [] OTHER                  -> PyStr(Capitalize(status.s))

(***************************************************************************)
(* Remote Data Client (src/odoo_reporter_local.py, lines 28-106)           *)
(*                                                                         *)
(* What requests.post, raise_for_status and response.json() produce is an  *)
(* outcome [kind, hasError, hasResult, result]: kind is "network",         *)
(* "timeout", "status" (non-2xx), "notjson" (body is not JSON), "nonobject"*)
(* (JSON that is not an object) or "object"; for an object, hasError and   *)
(* hasResult say which members it carries and result is the JSON value of  *)
(* its 'result' member: [t, items] with t "list" (items: the records),     *)
(* "none" (null), "true" (a bool or number) or "obj" (a non-empty object). *)
(***************************************************************************)
JList(items) == [t |-> "list", items |-> items]
EmptyList    == JList(<<>>)
JNone        == [t |-> "none", items |-> <<>>]
JTrue        == [t |-> "true", items |-> <<>>]
JObj         == [t |-> "obj", items |-> <<>>]

Outcome(kind, hasError, hasResult, result) ==
    [kind |-> kind, hasError |-> hasError, hasResult |-> hasResult,
     result |-> result]

Failure(kind) == Outcome(kind, FALSE, FALSE, EmptyList)

\* _make_request: the 'result' member of a JSON object (default []); []
\* whenever anything in the try block raises
_make_request(o) ==
    IF o.kind # "object" THEN EmptyList
    ELSE IF o.hasResult THEN o.result
    ELSE EmptyList

\* what _make_request logs: line 46 in the except branch, line 43 for an
\* 'error' member
RequestLog(o) ==
    IF o.kind # "object" THEN "Request failed"
    ELSE IF o.hasError THEN "Odoo API Error"
    ELSE "none"

\* Python truth value, x[0] and iteration of a JSON value
JTruthy(r) == r.t \in {"true", "obj"} \/ (r.t = "list" /\ r.items # <<>>)

WithPlaceholder(r) ==
    [k \in DOMAIN r \cup {"subscription_state"} |->
        IF k = "subscription_state" THEN PyStr(PlaceholderState) ELSE r[k]]

\* get_all_subscriptions without lines 71-74: no placeholder is added
get_all_subscriptions_asis(result) ==
    IF result.t = "list" THEN [exc |-> "", subs |-> result.items]
    ELSE IF result.t = "obj" THEN [exc |-> "KeyError", subs |-> <<>>]
    ELSE [exc |-> "TypeError", subs |-> <<>>]

\* get_all_subscriptions applied to what _make_request returned:
\* [exc, subs]; result[0] and len(result) raise on a value that is no list
get_all_subscriptions(result) ==
    IF result.t = "list"
    THEN IF result.items # <<>>
            /\ "subscription_state" \notin DOMAIN result.items[1]
         THEN [exc |-> "",
               subs |-> [j \in DOMAIN result.items |->
                            WithPlaceholder(result.items[j])]]
         ELSE [exc |-> "", subs |-> result.items]
    ELSE IF result.t = "obj" THEN [exc |-> "KeyError", subs |-> <<>>]
    ELSE [exc |-> "TypeError", subs |-> <<>>]

\* details[0] if details else {}  (also deliveries[0] if deliveries else {})
FirstOrEmpty(r) ==
    IF ~JTruthy(r) THEN [exc |-> "", rec |-> EmptyDict]
    ELSE IF r.t = "list" THEN [exc |-> "", rec |-> r.items[1]]
    ELSE IF r.t = "obj" THEN [exc |-> "KeyError", rec |-> EmptyDict]
    ELSE [exc |-> "TypeError", rec |-> EmptyDict]

\* the remote call a step issues
Call(model, method, limit, order) ==
    [model |-> model, method |-> method, limit |-> limit, order |-> order]

(***************************************************************************)
(* Report Assembler (src/odoo_reporter_local.py, lines 169-218)            *)
(***************************************************************************)
\* p.get('name', 'N/A').split('\n')[0]
FirstLine(v) ==
    IF ~IsStr(v) THEN PyRaise("AttributeError")
    ELSE PyStr(SplitOn(v.s, "\n")[1])

ProductOf(p) ==
    [name       |-> FirstLine(Get(p, "name", PyStr(NA))),
     quantity   |-> Get(p, "product_uom_qty", PyInt(0)),
     unit_price |-> Get(p, "price_unit", PyInt(0)),
     subtotal   |-> Get(p, "price_subtotal", PyInt(0))]

\* the dict of lines 185-213, each member as the code computes it
ReportFields(sub, customer, delivery, products) ==
    [name           |-> Get(sub, "name", PyStr(NA)),
     status         |-> map_status(Get(sub, "subscription_state", PyStr(<<>>))),
     plan           |-> get_many2one_value(Get(sub, "plan_id", PyNone),
                                           PyStr(NotAvailable)),
     start_date     |-> format_date(Get(sub, "date_order", PyNone)),
     end_date       |-> PyStr(NotAvailable),
     customer       |-> [name    |-> Get(customer, "name", PyStr(NA)),
                         address |-> format_address(customer),
                         phone   |-> Get(customer, "phone", PyStr(NA))],
     delivery       |-> [name   |-> Get(delivery, "name", PyStr(NA)),
                         status |-> map_delivery_status(
                                        Get(delivery, "state", PyStr(NA))),
                         date   |-> format_date(
                                        Get(delivery, "scheduled_date",
                                            PyStr(NA)))],
     products       |-> [j \in DOMAIN products |-> ProductOf(products[j])],
     payment_terms  |-> get_many2one_value(
                            Get(sub, "payment_term_id", PyRel(0, NA)),
                            PyStr(NA)),
     untaxed_amount |-> Get(sub, "amount_untaxed", PyInt(0)),
     total_amount   |-> Get(sub, "amount_total", PyInt(0))]

\* whether building the dict raises: a normalizer or a product name raises
ReportRaises(r) ==
    \/ IsRaise(r.status)
    \/ IsRaise(r.customer.address)
    \/ IsRaise(r.delivery.status)
    \/ \E j \in DOMAIN r.products : IsRaise(r.products[j].name)

(***************************************************************************)
(* Spreadsheet Renderer (src/excel_exporter.py)                            *)
(***************************************************************************)
headers ==
    <<PyStr(<<"N","a","m","e">>), PyStr(<<"S","t","a","t","u","s">>), PyStr(<<"P","l","a","n">>),
      PyStr(<<"S","t","a","r","t"," ","D","a","t","e">>), PyStr(<<"E","n","d"," ","D","a","t","e">>),
      PyStr(<<"C","u","s","t","o","m","e","r"," ","N","a","m","e">>),
      PyStr(<<"C","u","s","t","o","m","e","r"," ","A","d","d","r","e","s","s">>),
      PyStr(<<"C","u","s","t","o","m","e","r"," ","P","h","o","n","e">>),
      PyStr(<<"D","e","l","i","v","e","r","y"," ","N","a","m","e">>),
      PyStr(<<"D","e","l","i","v","e","r","y"," ","S","t","a","t","u","s">>),
      PyStr(<<"D","e","l","i","v","e","r","y"," ","D","a","t","e">>),
      PyStr(<<"P","r","o","d","u","c","t">>), PyStr(<<"Q","u","a","n","t","i","t","y">>),
      PyStr(<<"U","n","i","t"," ","P","r","i","c","e">>), PyStr(<<"S","u","b","t","o","t","a","l">>),
      PyStr(<<"P","a","y","m","e","n","t"," ","T","e","r","m","s">>),
      PyStr(<<"U","n","t","a","x","e","d"," ","A","m","o","u","n","t">>),
      PyStr(<<"T","o","t","a","l"," ","A","m","o","u","n","t">>)>>

\* dict.get(key) and dict.get(key, {}).get(key2): None when missing
GetOrNone(d, k) == Get(d, k, PyNone)
Get2OrNone(d, k, k2) == IF k \in DOMAIN d THEN Get(d[k], k2, PyNone) ELSE PyNone

\* the row of lines 29-48 (a product line) and of lines 52-68 (no product)
ExcelRow(report, pname, pqty, pprice, psub) ==
    <<GetOrNone(report, "name"), GetOrNone(report, "status"),
      GetOrNone(report, "plan"), GetOrNone(report, "start_date"),
      GetOrNone(report, "end_date"),
      Get2OrNone(report, "customer", "name"),
      Get2OrNone(report, "customer", "address"),
      Get2OrNone(report, "customer", "phone"),
      Get2OrNone(report, "delivery", "name"),
      Get2OrNone(report, "delivery", "status"),
      Get2OrNone(report, "delivery", "date"),
      pname, pqty, pprice, psub,
      GetOrNone(report, "payment_terms"),
      GetOrNone(report, "untaxed_amount"),
      GetOrNone(report, "total_amount")>>

\* a renderer without the else branch: a report without products adds no row
ReportRowsNoPlaceholder(report) ==
    IF "products" \in DOMAIN report
    THEN [j \in DOMAIN report["products"] |->
            ExcelRow(report,
                     GetOrNone(report["products"][j], "name"),
                     GetOrNone(report["products"][j], "quantity"),
                     GetOrNone(report["products"][j], "unit_price"),
                     GetOrNone(report["products"][j], "subtotal"))]
    ELSE <<>>

\* the rows one report appends: one per product, or one placeholder row
ReportRows(report) ==
    IF "products" \in DOMAIN report /\ report["products"] # <<>>
    THEN [j \in DOMAIN report["products"] |->
            ExcelRow(report,
                     GetOrNone(report["products"][j], "name"),
                     GetOrNone(report["products"][j], "quantity"),
                     GetOrNone(report["products"][j], "unit_price"),
                     GetOrNone(report["products"][j], "subtotal"))]
    ELSE <<ExcelRow(report, PyStr(NA), PyInt(0), PyInt(0), PyInt(0))>>

RECURSIVE DataRows(_)
DataRows(data) ==
    IF data = <<>> THEN <<>>
    ELSE ReportRows(data[1]) \o DataRows(Tail(data))

\* the rows of the sheet create_excel_report_base64 saves: the header row,
\* then the rows of each report in order
create_excel_report_base64(data) == <<headers>> \o DataRows(data)

(***************************************************************************)
(* The remote records and HTTP outcomes the model draws from               *)
(***************************************************************************)
MaxOrders == 2

\* a sale.order with every field populated
OrdFull ==
    [id |-> PyInt(1), name |-> PyStr(<<"S","1">>),
     subscription_state |-> PyStr(S_2_open),
     plan_id |-> PyRel(3, <<"G","o","l","d">>),
     date_order |-> PyStr(<<"2","0","2","4","-","0","3","-","1","5"," ","1","0",":","3","0",":","0","0">>),
     partner_id |-> PyRel(7, <<"A","c","m","e">>),
     order_line |-> PyIds(<<1, 2>>),
     payment_term_id |-> PyRel(1, <<"3","0"," ","D","a","y","s">>),
     amount_untaxed |-> PyInt(100), amount_total |-> PyInt(120)]
\* a sale.order whose fields are all absent but id
OrdBare == [id |-> PyInt(2)]
\* a sale.order as the backend sends unset fields: false
OrdFalse ==
    [id |-> PyInt(3), name |-> PyStr(<<"S","3">>),
     subscription_state |-> PyFalse, plan_id |-> PyFalse,
     date_order |-> PyStr(<<"2","0","2","4","-","0","2","-","3","0">>), partner_id |-> PyFalse,
     order_line |-> PyIds(<<>>), payment_term_id |-> PyFalse,
     amount_untaxed |-> PyInt(0), amount_total |-> PyInt(0)]
Orders == {OrdFull, OrdBare, OrdFalse}

CustFull ==
    [name |-> PyStr(<<"A","c","m","e">>), street |-> PyStr(<<"1"," ","M","a","i","n"," ","S","t">>),
     street2 |-> PyStr(<<"S","u","i","t","e"," ","2">>), city |-> PyStr(<<"S","p","r","i","n","g","f","i","e","l","d">>),
     state_id |-> PyRel(1, <<"I","L">>), country_id |-> PyRel(2, <<"U","S">>),
     phone |-> PyStr(<<"5","5","5">>), email |-> PyStr(<<"a","@","b",".","c">>)]
\* unset char fields are false
CustNoPhone ==
    [name |-> PyStr(<<"B","o","b">>), street |-> PyStr(<<"2"," ","H","i","g","h"," ","S","t">>),
     street2 |-> PyFalse, city |-> PyFalse,
     state_id |-> PyRel(1, <<"I","L">>), country_id |-> PyRel(2, <<"U","S">>),
     phone |-> PyFalse, email |-> PyFalse]
\* an unset many2one is false
CustNoState ==
    [name |-> PyStr(<<"C","y">>), street |-> PyStr(<<"3"," ","L","o","w"," ","S","t">>),
     street2 |-> PyFalse, city |-> PyStr(<<"P","a","r","i","s">>),
     state_id |-> PyFalse, country_id |-> PyRel(3, <<"F","R">>),
     phone |-> PyStr(<<"5","5","6">>), email |-> PyFalse]
Customers == {CustFull, CustNoPhone, CustNoState}

DelDone ==
    [id |-> PyInt(9), name |-> PyStr(<<"W","H","/","O","U","T","/","1">>), state |-> PyStr(D_done),
     scheduled_date |-> PyStr(<<"2","0","2","4","-","0","3","-","2","0"," ","0","8",":","0","0",":","0","0">>)]
Deliveries == {DelDone}

Line1 ==
    [id |-> PyInt(1), product_id |-> PyRel(5, <<"W","i","d","g","e","t">>),
     name |-> PyStr(<<"W","i","d","g","e","t","\n","B","l","u","e">>),
     product_uom_qty |-> PyInt(2),
     price_unit |-> PyInt(50), price_subtotal |-> PyInt(100)]
Line2 ==
    [id |-> PyInt(2), product_id |-> PyRel(6, <<"G","a","d","g","e","t">>),
     name |-> PyStr(<<"G","a","d","g","e","t">>), product_uom_qty |-> PyInt(1),
     price_unit |-> PyInt(20), price_subtotal |-> PyInt(20)]
LineNoName ==
    [id |-> PyInt(3), product_id |-> PyFalse, name |-> PyFalse,
     product_uom_qty |-> PyInt(1), price_unit |-> PyInt(0),
     price_subtotal |-> PyInt(0)]

OrderLists == UNION {[1..n -> Orders] : n \in 0..MaxOrders}

FailureKinds == {"network", "timeout", "status", "notjson", "nonobject"}

\* every way a call can fail, and a JSON object without a 'result' member
Failures == {Failure(k) : k \in FailureKinds}
            \cup {Outcome("object", e, FALSE, EmptyList) : e \in BOOLEAN}

\* the JSON objects that carry one of the results rs; withError is the
\* result of the object that has an 'error' member beside its 'result'
Outcomes(rs, withError) ==
    Failures \cup {Outcome("object", FALSE, TRUE, r) : r \in rs}
             \cup {Outcome("object", TRUE, TRUE, withError)}

PrimaryOutcomes ==
    Outcomes({JNone, JTrue, JObj} \cup {JList(s) : s \in OrderLists},
             JList(<<OrdFull>>))
CustomerOutcomes ==
    Outcomes({JNone, JObj, EmptyList} \cup {JList(<<c>>) : c \in Customers},
             JList(<<CustFull>>))
DeliveryOutcomes ==
    Outcomes({JNone, JTrue, EmptyList} \cup {JList(<<d>>) : d \in Deliveries},
             JList(<<DelDone>>))
LineOutcomes ==
    Outcomes({JNone, JObj, EmptyList, JList(<<Line1, Line2>>),
              JList(<<LineNoName>>)},
             JList(<<Line1, Line2>>))

\* os.environ: each setting is "missing" or "set"; ODOO_UID may also be set
\* to text that is no number ("nonnumeric") or to "0" ("zero")
Envs == [url : {"missing", "set"}, db : {"missing", "set"},
         uid : {"missing", "nonnumeric", "zero", "set"},
         password : {"missing", "set"}]

(***************************************************************************)
(* State                                                                   *)
(***************************************************************************)
VARIABLES
    pc,        \* where the request handler is
    route,     \* "reports" (GET /api/reports) or "excel" (GET /api/reports/excel)
    env,       \* os.environ
    subs,      \* subscriptions: what get_all_subscriptions returned
    i,         \* the index in subs of the order being processed
    customer,  \* locals of the loop body
    delivery,
    products,
    reports,   \* reports_data
    origin,    \* for each report, the index in subs of its order
    skipped,   \* the orders whose processing raised: logged at line 215
    calls,     \* the remote calls issued so far, in order
    last,      \* the _make_request call of the step just taken, if any
    exc,       \* the exception propagating to the route handler ("": none)
    status,    \* the HTTP status of the response (0: none yet)
    body,      \* the kind of the response body
    sheet,     \* the rows of the workbook
    data,      \* the argument of create_excel_report_base64
    fn,        \* the normalizer applied
    arg,       \* its argument
    out        \* its result

vars == <<pc, route, env, subs, i, customer, delivery, products, reports,
          origin, skipped, calls, last, exc, status, body, sheet, data,
          fn, arg, out>>

pureVars == <<data, fn, arg, out>>

NoCall == [model |-> "", kind |-> "", hasError |-> FALSE,
           hasResult |-> FALSE, ret |-> EmptyList, log |-> "none"]

\* one _make_request call: what came back, what it returned and logged
LastOf(model, o) ==
    [model |-> model, kind |-> o.kind, hasError |-> o.hasError,
     hasResult |-> o.hasResult, ret |-> _make_request(o),
     log |-> RequestLog(o)]

(***************************************************************************)
(* The request handler: construct the reporter, generate, respond          *)
(***************************************************************************)
\* __init__: the exception it raises ("": none). int(None) is a TypeError,
\* int of text that is no number a ValueError; a falsy setting (uid 0
\* included) the ValueError of line 26
OdooSubscriptionReporter(e) ==
    IF e.uid = "missing" THEN "TypeError"
    ELSE IF e.uid = "nonnumeric" THEN "ValueError"
    ELSE IF e.url = "missing" \/ e.db = "missing" \/ e.uid = "zero"
            \/ e.password = "missing"
         THEN "ValueError"
    ELSE ""

\* the except clauses of the routes: ValueError is a 400, the rest a 500
ErrorStatus(x) == IF x = "ValueError" THEN 400 ELSE 500

\* a handler that logs and raises again instead of going on
ExceptHandlerReraise(rep, sk, idx) ==
    [reports |-> rep, skipped |-> sk \cup {idx}, exc |-> "Exception"]

\* the except clause of the loop body (lines 214-215): log, keep what was
\* collected, go on with the next order
ExceptHandler(rep, sk, idx) ==
    [reports |-> rep, skipped |-> sk \cup {idx}, exc |-> ""]

\* where the loop goes after order idx
AfterOrder(idx) == IF idx < Len(subs) THEN "customer" ELSE "respond"

\* get_customer_details without its guard: the call is made for id 0 too
NeedsCustomerCallAlways(sub) == TRUE

\* line 178 and the guard of get_customer_details (line 80): the call is
\* made unless the extracted partner id is falsy
NeedsCustomerCall(sub) ==
    Truthy(get_partner_id(Get(sub, "partner_id", PyFalse)))

\* line 180 and the guard of get_delivery_orders (line 96)
NeedsDeliveryCall(sub) == Truthy(Get(sub, "name", PyStr(<<>>)))

\* line 183 and the guard of get_order_lines (line 89)
NeedsLineCall(sub) == Truthy(Get(sub, "order_line", PyIds(<<>>)))

\* an exception raised while order i is processed
Skip ==
    LET h == ExceptHandler(reports, skipped, i) IN
    /\ reports' = h.reports
    /\ skipped' = h.skipped
    /\ exc' = h.exc
    /\ pc' = IF h.exc = "" THEN AfterOrder(i) ELSE "respond"
    /\ i' = i + 1
    /\ customer' = EmptyDict
    /\ delivery' = EmptyDict
    /\ products' = EmptyList
    /\ UNCHANGED origin

Construct ==
    /\ pc = "start"
    /\ exc' = OdooSubscriptionReporter(env)
    /\ pc' = IF exc' = "" THEN "fetch" ELSE "respond"
    /\ UNCHANGED <<route, env, subs, i, customer, delivery, products, reports,
                   origin, skipped, calls, last, status, body, sheet>>
    /\ UNCHANGED pureVars

\* lines 171-175: get_all_subscriptions and the early return
Fetch ==
    /\ pc = "fetch"
    /\ \E o \in PrimaryOutcomes :
          LET r == get_all_subscriptions(_make_request(o)) IN
          /\ calls' = Append(calls, Call("sale.order", "search_read", 0, 0))
          /\ last' = LastOf("sale.order", o)
          /\ exc' = r.exc
          /\ subs' = r.subs
          /\ i' = 1
          /\ pc' = IF r.exc = "" /\ r.subs # <<>> THEN "customer"
                   ELSE "respond"
    /\ UNCHANGED <<route, env, customer, delivery, products, reports, origin,
                   skipped, status, body, sheet>>
    /\ UNCHANGED pureVars

\* lines 178-179: get_partner_id, get_customer_details
CustomerStep ==
    /\ pc = "customer"
    /\ IF ~NeedsCustomerCall(subs[i])
       THEN /\ customer' = EmptyDict
            /\ last' = NoCall
            /\ pc' = "delivery"
            /\ UNCHANGED <<calls, i, delivery, products, reports, origin,
                           skipped, exc>>
       ELSE \E o \in CustomerOutcomes :
               LET f == FirstOrEmpty(_make_request(o)) IN
               /\ calls' = Append(calls, Call("res.partner", "read", 0, i))
               /\ last' = LastOf("res.partner", o)
               /\ IF f.exc # "" THEN Skip
                  ELSE /\ customer' = f.rec
                       /\ pc' = "delivery"
                       /\ UNCHANGED <<i, delivery, products, reports, origin,
                                      skipped, exc>>
    /\ UNCHANGED <<route, env, subs, status, body, sheet>>
    /\ UNCHANGED pureVars

\* lines 180-182: get_delivery_orders, deliveries[0] if deliveries else {}
DeliveryStep ==
    /\ pc = "delivery"
    /\ IF ~NeedsDeliveryCall(subs[i])
       THEN /\ delivery' = EmptyDict
            /\ last' = NoCall
            /\ pc' = "lines"
            /\ UNCHANGED <<calls, i, customer, products, reports, origin,
                           skipped, exc>>
       ELSE \E o \in DeliveryOutcomes :
               LET f == FirstOrEmpty(_make_request(o)) IN
               /\ calls' = Append(calls,
                                  Call("stock.picking", "search_read", 1, i))
               /\ last' = LastOf("stock.picking", o)
               /\ IF f.exc # "" THEN Skip
                  ELSE /\ delivery' = f.rec
                       /\ pc' = "lines"
                       /\ UNCHANGED <<i, customer, products, reports, origin,
                                      skipped, exc>>
    /\ UNCHANGED <<route, env, subs, status, body, sheet>>
    /\ UNCHANGED pureVars

\* line 183: get_order_lines
LinesStep ==
    /\ pc = "lines"
    /\ IF ~NeedsLineCall(subs[i])
       THEN /\ products' = EmptyList
            /\ last' = NoCall
            /\ UNCHANGED calls
       ELSE \E o \in LineOutcomes :
               /\ calls' = Append(calls, Call("sale.order.line", "read", 0, i))
               /\ last' = LastOf("sale.order.line", o)
               /\ products' = _make_request(o)
    /\ pc' = "assemble"
    /\ UNCHANGED <<route, env, subs, i, customer, delivery, reports, origin,
                   skipped, exc, status, body, sheet>>
    /\ UNCHANGED pureVars

\* lines 185-213: build the dict and append it; iterating products raises
\* when it is no list (None, a bool or number) or holds no dicts (an object)
Assemble ==
    /\ pc = "assemble"
    /\ last' = NoCall
    /\ IF products.t # "list" THEN Skip
       ELSE LET r == ReportFields(subs[i], customer, delivery, products.items) IN
            IF ReportRaises(r) THEN Skip
            ELSE /\ reports' = Append(reports, r)
                 /\ origin' = Append(origin, i)
                 /\ i' = i + 1
                 /\ pc' = AfterOrder(i)
                 /\ customer' = EmptyDict
                 /\ delivery' = EmptyDict
                 /\ products' = EmptyList
                 /\ UNCHANGED <<skipped, exc>>
    /\ UNCHANGED <<route, env, subs, calls, status, body, sheet>>
    /\ UNCHANGED pureVars

\* the rest of the route: src/app.py lines 24-28 and 35-44
Respond ==
    /\ pc = "respond"
    /\ pc' = "done"
    /\ IF exc # ""
       THEN status' = ErrorStatus(exc) /\ body' = "error" /\ UNCHANGED sheet
       ELSE IF route = "reports"
       THEN status' = 200 /\ body' = "reports" /\ UNCHANGED sheet
       ELSE IF reports = <<>>
       THEN status' = 400 /\ body' = "error" /\ UNCHANGED sheet
       ELSE /\ status' = 200
            /\ body' = "fileContent"
            /\ sheet' = create_excel_report_base64(reports)
    /\ UNCHANGED <<route, env, subs, i, customer, delivery, products, reports,
                   origin, skipped, calls, last, exc>>
    /\ UNCHANGED pureVars

Init ==
    /\ pc = "start"
    /\ route \in {"reports", "excel"}
    /\ env \in Envs
    /\ subs = <<>>
    /\ i = 0
    /\ customer = EmptyDict
    /\ delivery = EmptyDict
    /\ products = EmptyList
    /\ reports = <<>>
    /\ origin = <<>>
    /\ skipped = {}
    /\ calls = <<>>
    /\ last = NoCall
    /\ exc = ""
    /\ status = 0
    /\ body = ""
    /\ sheet = <<>>
    /\ data = <<>>
    /\ fn = ""
    /\ arg = PyNone
    /\ out = PyNone

Next ==
    \/ Construct
    \/ Fetch
    \/ CustomerStep
    \/ DeliveryStep
    \/ LinesStep
    \/ Assemble
    \/ Respond

Spec == Init /\ [][Next]_vars

(***************************************************************************)
(* The normalizers on their own: each applied, as its call site in         *)
(* generate_structured_reports applies it, to a remote record whose field  *)
(* is absent, false, empty, an unknown code, well-formed or an [id, label] *)
(* pair                                                                    *)
(***************************************************************************)
FieldValues ==
    {PyFalse, PyStr(<<>>), PyStr(S_2_open), PyStr(D_done),
     PyStr(<<"u","n","k","n","o","w","n","_","c","o","d","e">>), PyStr(<<"2","0","2","4","-","0","3","-","1","5">>),
     PyStr(<<"2","0","2","4","-","0","3","-","1","5"," ","1","0",":","3","0",":","0","0">>), PyStr(<<"b","a","d","-","d","a","t","e">>),
     PyStr(<<"2","0","2","4","-","0","3","-","1","5","\t"," ","1","0",":","3","0",":","0","0">>),
     PyStr(<<"2","0","2","4","-","0","3","-","1","5","\t","1","0",":","3","0",":","0","0">>),
     PyRel(7, <<"A","c","m","e">>), PyIds(<<>>), PyIds(<<1, 2>>), PyInt(0)}

\* the record field each normalizer reads
FieldOf(f) ==
    CASE f = "get_many2one_value"  -> "plan_id"
      [] f = "get_partner_id"      -> "partner_id"
      [] f = "format_date"         -> "date_order"
      [] f = "map_status"          -> "subscription_state"
      [] f = "map_delivery_status" -> "state"
      [] OTHER                     -> "state_id"

FieldNormalizers == {"get_many2one_value", "get_partner_id", "format_date",
                     "map_status", "map_delivery_status"}

\* records with the field absent, or holding one of the values
RecordsWith(k) == {EmptyDict} \cup {[x \in {k} |-> v] : v \in FieldValues}

AddressRecords ==
    {EmptyDict} \cup Customers
    \cup {[state_id |-> s, country_id |-> c] :
            s \in {PyFalse, PyRel(1, <<"I","L">>)},
            c \in {PyFalse, PyRel(2, <<"U","S">>)}}
    \cup {[street |-> PyStr(<<"1"," ","M","a","i","n"," ","S","t">>),
           city |-> PyStr(<<"S","p","r","i","n","g","f","i","e","l","d">>), state_id |-> s] :
            s \in {PyFalse, PyRel(1, <<"I","L">>)}}

InitNorm ==
    /\ pc = "norm"
    /\ \/ fn \in FieldNormalizers /\ arg \in RecordsWith(FieldOf(fn))
       \/ fn = "format_address" /\ arg \in AddressRecords
    /\ out = PyNone
    /\ route = "" /\ env = [url |-> "", db |-> "", uid |-> "", password |-> ""]
    /\ subs = <<>> /\ i = 0
    /\ customer = EmptyDict /\ delivery = EmptyDict /\ products = EmptyList
    /\ reports = <<>> /\ origin = <<>> /\ skipped = {} /\ calls = <<>>
    /\ last = NoCall /\ exc = "" /\ status = 0 /\ body = ""
    /\ sheet = <<>> /\ data = <<>>

NormDone(f, v) ==
    /\ pc = "norm"
    /\ fn = f
    /\ out' = v
    /\ pc' = "normdone"
    /\ UNCHANGED <<route, env, subs, i, customer, delivery, products, reports,
                   origin, skipped, calls, last, exc, status, body, sheet,
                   data, fn, arg>>

\* line 188
ApplyMany2one ==
    NormDone("get_many2one_value",
             get_many2one_value(Get(arg, "plan_id", PyNone),
                                PyStr(NotAvailable)))
\* line 178
ApplyPartnerId ==
    NormDone("get_partner_id", get_partner_id(Get(arg, "partner_id", PyFalse)))
\* line 189
ApplyFormatDate ==
    NormDone("format_date", format_date(Get(arg, "date_order", PyNone)))
\* line 193
ApplyFormatAddress ==
    NormDone("format_address", format_address(arg))
\* line 187
ApplyMapStatus ==
    NormDone("map_status",
             map_status(Get(arg, "subscription_state", PyStr(<<>>))))
\* line 198
ApplyMapDeliveryStatus ==
    NormDone("map_delivery_status",
             map_delivery_status(Get(arg, "state", PyStr(NA))))

NextNorm ==
    \/ ApplyMany2one
    \/ ApplyPartnerId
    \/ ApplyFormatDate
    \/ ApplyFormatAddress
    \/ ApplyMapStatus
    \/ ApplyMapDeliveryStatus

SpecNorm == InitNorm /\ [][NextNorm]_vars

(***************************************************************************)
(* The renderer on its own, over sequences of reports                      *)
(***************************************************************************)
MaxReports == 2
MaxLines == 2

ProductLists == UNION {[1..n -> {Line1, Line2}] : n \in 0..MaxLines}

\* reports as the assembler builds them, and a dict that lacks most keys
ExcelReports ==
    {ReportFields(OrdFull, CustFull, DelDone, ps) : ps \in ProductLists}
    \cup {ReportFields(OrdBare, EmptyDict, EmptyDict, ps) : ps \in ProductLists}
    \cup {[name |-> PyStr(<<"S","9">>), status |-> PyStr(<<"A","c","t","i","v","e">>)]}

ReportLists == UNION {[1..n -> ExcelReports] : n \in 0..MaxReports}

InitExcel ==
    /\ pc = "excel"
    /\ data \in ReportLists
    /\ sheet = <<>>
    /\ fn = "" /\ arg = PyNone /\ out = PyNone
    /\ route = "" /\ env = [url |-> "", db |-> "", uid |-> "", password |-> ""]
    /\ subs = <<>> /\ i = 0
    /\ customer = EmptyDict /\ delivery = EmptyDict /\ products = EmptyList
    /\ reports = <<>> /\ origin = <<>> /\ skipped = {} /\ calls = <<>>
    /\ last = NoCall /\ exc = "" /\ status = 0 /\ body = ""

Render ==
    /\ pc = "excel"
    /\ sheet' = create_excel_report_base64(data)
    /\ pc' = "exceldone"
    /\ UNCHANGED <<route, env, subs, i, customer, delivery, products, reports,
                   origin, skipped, calls, last, exc, status, body, data,
                   fn, arg, out>>

NextExcel == Render

SpecExcel == InitExcel /\ [][NextExcel]_vars

(***************************************************************************)
(* Properties                                                              *)
(***************************************************************************)
Processed == 1..(i - 1)

\* an order none of whose steps can raise: no call is made for it and its
\* status is a str
CannotRaise(sub) ==
    /\ LET p == Get(sub, "partner_id", PyFalse) IN
       ~((p.t = "rel" /\ p.n # 0) \/ (p.t = "ids" /\ p.l # <<>>))
    /\ ~Truthy(Get(sub, "name", PyStr(<<>>)))
    /\ ~Truthy(Get(sub, "order_line", PyIds(<<>>)))
    /\ IsStr(Get(sub, "subscription_state", PyStr(<<>>)))

\* C1: per-record failure isolation.  Whatever subset of the orders raises
\* (the orders in skipped), generate_structured_reports does not raise,
\* processes every order, and reports_data holds exactly one report for each
\* order that did not raise, in the order of the primary result; an order
\* that raised is one for which some step can raise.
C1_FailureIsolation ==
    subs # <<>> =>
        /\ exc = ""
        /\ skipped \subseteq Processed
        /\ \A j \in skipped : ~CannotRaise(subs[j])
        /\ Len(reports) = Len(origin)
        /\ Len(origin) = (i - 1) - Cardinality(skipped)
        /\ \A k \in DOMAIN origin : origin[k] \in Processed \ skipped
        /\ \A k, l \in DOMAIN origin : k < l => origin[k] < origin[l]
        /\ \A k \in DOMAIN reports :
              /\ reports[k].name = Get(subs[origin[k]], "name", PyStr(NA))
              /\ reports[k].total_amount
                     = Get(subs[origin[k]], "amount_total", PyInt(0))
        /\ pc \in {"respond", "done"} => i = Len(subs) + 1

\* C1 witness: two orders, the second raised, exactly the first is reported
C1_Witness ==
    /\ pc = "done"
    /\ Len(subs) = 2
    /\ skipped = {2}
    /\ origin = <<1>>
    /\ Len(reports) = 1
    /\ status = 200

\* C2: whenever the POST fails, or its body is not a JSON object with a list
\* under 'result' (null or another non-list included), _make_request returns
\* the empty list, and no exception reaches the route from the fetch.
C2_EmptyOnFailure ==
    (last.model # "" /\ (last.kind # "object" \/ ~last.hasResult
                          \/ last.ret.t # "list"))
        => (last.ret = EmptyList /\ exc = "")

\* C3: a payload with an 'error' member is logged and yields the empty list,
\* whatever else the payload carries.
C3_ErrorDegrades ==
    (last.model # "" /\ last.hasError)
        => (last.log = "Odoo API Error" /\ last.ret = EmptyList)

\* a display value that is defined: not None, not False
Defined(v) == v.t # "none" /\ v # PyFalse

\* C4: every field of every report emitted, of its customer, of its
\* delivery and of each product line is defined (never None or False).
C4_ReportDefined ==
    \A k \in DOMAIN reports :
        LET r == reports[k] IN
        /\ \A f \in {"name", "status", "plan", "start_date", "end_date",
                     "payment_terms", "untaxed_amount", "total_amount"} :
              Defined(r[f])
        /\ \A f \in {"name", "address", "phone"} : Defined(r.customer[f])
        /\ \A f \in {"name", "status", "date"} : Defined(r.delivery[f])
        /\ \A j \in DOMAIN r.products :
              \A f \in {"name", "quantity", "unit_price", "subtotal"} :
                 Defined(r.products[j][f])

\* C5: each normalizer returns a display value for every shape of its
\* field: it never raises.
C5_NormalizersTotal == pc = "normdone" => ~IsRaise(out)

Sentinels == {PyStr(NA), PyStr(NotAvailable)}

\* C6: a report assembled when the delivery fetch found nothing has a
\* delivery whose name, status and date are each a sentinel.
C6_DeliverySentinels ==
    [][(pc = "assemble" /\ delivery = EmptyDict
        /\ Len(reports') = Len(reports) + 1)
       => LET d == reports'[Len(reports')].delivery IN
          /\ d.name \in Sentinels
          /\ d.status \in Sentinels
          /\ d.date \in Sentinels]_vars

MissingSetting(e) ==
    "missing" \in {e.url, e.db, e.uid, e.password}

\* C7: with any required setting missing, no remote call is made and both
\* routes answer 400.
C7_Config400 ==
    MissingSetting(env) =>
        /\ calls = <<>>
        /\ pc \notin {"fetch", "customer", "delivery", "lines", "assemble"}
        /\ pc = "done" => (status = 400 /\ body = "error")

\* whether record j of the primary result came back without a state
FetchedWithoutState(j) ==
    "subscription_state" \notin DOMAIN last.ret.items[j]

HasPlaceholder(sub) ==
    /\ "subscription_state" \in DOMAIN sub
    /\ sub["subscription_state"] = PyStr(PlaceholderState)

JustFetched == last.model = "sale.order" /\ last.ret.t = "list" /\ exc = ""

\* C8 as stated: every record that came back without subscription_state
\* carries the placeholder in what get_all_subscriptions returns.
C8_EveryRecordPlaceholder ==
    JustFetched =>
        \A j \in DOMAIN last.ret.items :
            FetchedWithoutState(j) => HasPlaceholder(subs[j])

\* C8 amended: when the first record of the primary result came back
\* without subscription_state, every record returned carries the placeholder
\* (otherwise the records are returned as fetched); and a record whose state
\* is missing or the placeholder never makes map_status raise: its report,
\* when one is emitted, has status "N/a" or "", and the batch does not fail.
C8_FirstRecordPlaceholder ==
    /\ JustFetched /\ last.ret.items # <<>> =>
          /\ Len(subs) = Len(last.ret.items)
          /\ IF FetchedWithoutState(1)
             THEN \A j \in DOMAIN subs : HasPlaceholder(subs[j])
             ELSE subs = last.ret.items
    /\ subs # <<>> => exc = ""
    /\ \A k \in DOMAIN reports :
          LET sub == subs[origin[k]] IN
          /\ HasPlaceholder(sub) => reports[k].status = PyStr(<<"N","/","a">>)
          /\ "subscription_state" \notin DOMAIN sub
                => reports[k].status = PyStr(<<>>)
    /\ \A j \in skipped :
          (HasPlaceholder(subs[j]) \/ "subscription_state" \notin DOMAIN subs[j])
             => ~CannotRaise(subs[j])

\* C8 witness: two records fetched without a state, both carry the
\* placeholder and both are reported
C8_Witness ==
    /\ pc = "done"
    /\ Len(subs) = 2
    /\ \A j \in DOMAIN subs : HasPlaceholder(subs[j]) /\ subs[j]["id"] = PyInt(2)
    /\ Len(reports) = 2
    /\ skipped = {}

\* the product lines of a report and the rows it takes in the sheet
NProd(r) == IF "products" \in DOMAIN r THEN Len(r["products"]) ELSE 0
RowCount(r) == IF NProd(r) >= 1 THEN NProd(r) ELSE 1

\* the number of data rows before those of report k
RECURSIVE RowsBefore(_)
RowsBefore(k) == IF k <= 1 THEN 0
                 ELSE RowsBefore(k - 1) + RowCount(data[k - 1])

\* member f of the embedded dict r[k]; None when r has no k
SubField(r, k, f) == IF k \in DOMAIN r THEN r[k][f] ELSE PyNone

\* the columns that are not product columns
ReportColumns == (1..11) \cup (16..18)

\* C9: after the header row of 18 columns the sheet holds, in report order,
\* one row per product line of a report (in line order, the 14 report
\* columns repeated) and one row with "N/A", 0, 0, 0 for a report without
\* product lines; the data rows number the sum of max(1, lines) and every
\* row has 18 cells.
C9_RowExpansion ==
    pc = "exceldone" =>
        /\ Len(sheet) = 1 + RowsBefore(Len(data) + 1)
        /\ \A n \in DOMAIN sheet : Len(sheet[n]) = 18
        /\ sheet[1][1] = PyStr(<<"N","a","m","e">>) /\ sheet[1][12] = PyStr(<<"P","r","o","d","u","c","t">>)
        /\ sheet[1][18] = PyStr(<<"T","o","t","a","l"," ","A","m","o","u","n","t">>)
        /\ \A k \in DOMAIN data :
              \A j \in 1..RowCount(data[k]) :
                 LET row == sheet[1 + RowsBefore(k) + j]
                     r   == data[k]
                 IN  /\ \A c \in ReportColumns :
                           row[c] = sheet[1 + RowsBefore(k) + 1][c]
                     /\ row[1] = Get(r, "name", PyNone)
                     /\ row[2] = Get(r, "status", PyNone)
                     /\ row[3] = Get(r, "plan", PyNone)
                     /\ row[4] = Get(r, "start_date", PyNone)
                     /\ row[5] = Get(r, "end_date", PyNone)
                     /\ row[6] = SubField(r, "customer", "name")
                     /\ row[7] = SubField(r, "customer", "address")
                     /\ row[8] = SubField(r, "customer", "phone")
                     /\ row[9] = SubField(r, "delivery", "name")
                     /\ row[10] = SubField(r, "delivery", "status")
                     /\ row[11] = SubField(r, "delivery", "date")
                     /\ row[16] = Get(r, "payment_terms", PyNone)
                     /\ row[17] = Get(r, "untaxed_amount", PyNone)
                     /\ row[18] = Get(r, "total_amount", PyNone)
                     /\ IF NProd(r) >= 1
                        THEN /\ row[12] = r["products"][j].name
                             /\ row[13] = r["products"][j].quantity
                             /\ row[14] = r["products"][j].unit_price
                             /\ row[15] = r["products"][j].subtotal
                        ELSE /\ row[12] = PyStr(NA)
                             /\ row[13] = PyInt(0)
                             /\ row[14] = PyInt(0)
                             /\ row[15] = PyInt(0)

\* C9 witness: a report with two product lines, then one with none: the
\* header and three data rows
C9_Witness ==
    /\ pc = "exceldone"
    /\ Len(data) = 2
    /\ NProd(data[1]) = 2
    /\ NProd(data[2]) = 0
    /\ Len(sheet) = 4
    /\ sheet[4][12] = PyStr(NA)

CallRank(c) ==
    CASE c.model = "res.partner"     -> 1
      [] c.model = "stock.picking"   -> 2
      [] c.model = "sale.order.line" -> 3
      [] OTHER                       -> 0

\* the partner id of an order is present and not 0
HasCustomerId(sub) ==
    LET p == Get(sub, "partner_id", PyFalse) IN
    \/ p.t = "rel" /\ p.n # 0
    \/ p.t = "ids" /\ p.l # <<>> /\ p.l[1] # 0
HasName(sub) ==
    LET v == Get(sub, "name", PyStr(<<>>)) IN Truthy(v)
HasLines(sub) ==
    LET v == Get(sub, "order_line", PyIds(<<>>)) IN Truthy(v)

\* C10: the first call is the one primary sale.order fetch; nothing follows
\* it when it yields nothing; the calls of an order are customer read,
\* delivery search (limit 1), line read, in that order and each at most
\* once, every call of order i before every call of order i+1; a customer
\* read is made only for a partner id that is not 0, a delivery search only
\* for a non-empty name, a line read only for a non-empty id list, and an
\* order that did not raise got each call it was not to skip; at most
\* 1 + 3N calls are made for N orders.
C10_CallOrder ==
    /\ pc \in {"start", "fetch"} => calls = <<>>
    /\ pc \in {"customer", "delivery", "lines", "assemble"} => calls # <<>>
    /\ calls # <<>> => calls[1] = Call("sale.order", "search_read", 0, 0)
    /\ subs = <<>> => Len(calls) <= 1
    /\ Len(calls) <= 1 + 3 * Len(subs)
    /\ \A k \in 2..Len(calls) :
          LET c == calls[k] IN
          /\ c.order \in DOMAIN subs
          /\ CallRank(c) >= 1
          /\ c.model = "res.partner"
                => HasCustomerId(subs[c.order]) /\ c.method = "read"
          /\ c.model = "stock.picking"
                => /\ HasName(subs[c.order])
                   /\ c.method = "search_read" /\ c.limit = 1
          /\ c.model = "sale.order.line"
                => HasLines(subs[c.order]) /\ c.method = "read"
    /\ \A k, l \in 2..Len(calls) :
          k < l => \/ calls[k].order < calls[l].order
                   \/ /\ calls[k].order = calls[l].order
                      /\ CallRank(calls[k]) < CallRank(calls[l])
    /\ \A n \in DOMAIN origin :
          LET j == origin[n] IN
          /\ HasCustomerId(subs[j])
                => \E k \in 2..Len(calls) :
                      calls[k] = Call("res.partner", "read", 0, j)
          /\ HasName(subs[j])
                => \E k \in 2..Len(calls) :
                      calls[k] = Call("stock.picking", "search_read", 1, j)
          /\ HasLines(subs[j])
                => \E k \in 2..Len(calls) :
                      calls[k] = Call("sale.order.line", "read", 0, j)

\* C10 witness: two orders, each with its three calls after the primary one
C10_Witness ==
    /\ pc = "done"
    /\ Len(subs) = 2
    /\ Len(calls) = 7
    /\ calls[2] = Call("res.partner", "read", 0, 1)
    /\ calls[7] = Call("sale.order.line", "read", 0, 2)

=============================================================================
